---- MODULE Spec2Model ----
(***************************************************************************)
(* N-gram performance aggregation and classification engine of the         *)
(* advantage-poc repository: app/ngram_analyzer.py (generate_ngrams,       *)
(* analyze_ngrams) and app/ad_analyzer.py (find_underperforming_ads,       *)
(* find_best_ngrams, find_mismatched_ngrams), with the suggestion           *)
(* generator app/ad_generator.py (generate_suggestions) and the run of the *)
(* web front end app_ui.py (run_analysis and the handlers around it).      *)
(*                                                                         *)
(* Numbers are exact: a metric is a natural number and a derived ratio is  *)
(* a fraction [num, den] compared by cross-multiplication.  A DataFrame is *)
(* a record [cols, rows]: its set of column names and its sequence of      *)
(* rows.  A dict keyed by '<n>-grams' is a function keyed by n.            *)
(***************************************************************************)
EXTENDS Integers, Sequences, FiniteSets, TLC

VARIABLES
    pc,                \* position in the pipeline
    search_terms_df,   \* the query records, in row order
    min_ngram,         \* analyze_ngrams argument
    max_ngram,         \* analyze_ngrams argument
    idx,               \* number of rows the iterrows() loop has consumed
    ngram_performance, \* phrase -> the five running sums
    ngram_lengths,     \* phrase -> n-gram length last recorded for it
    ngram_keys,        \* insertion order of the keys of ngram_performance
    performance_df,    \* the frame built from ngram_performance
    analyzed_data,     \* n -> partition frame ({} when nothing was generated)
    gold_nuggets,      \* result of find_best_ngrams
    mismatches,        \* result of find_mismatched_ngrams
    best_args,         \* thresholds find_best_ngrams was called with
    mismatch_args,     \* thresholds find_mismatched_ngrams was called with
    ads_df,            \* the ad records, in row order
    underperforming,   \* result of find_underperforming_ads
    ads_args,          \* thresholds find_underperforming_ads was called with
    called,            \* the classifiers that have returned
    raised,            \* the exception that escaped a call, or "none"
    api_key,           \* whether GEMINI_API_KEY is set in the environment
    uploaded_file_content, \* what the two upload handlers have stored
    run_button,        \* "enabled" or "disabled"
    ui_pc,             \* position of run_analysis
    gemini_client,     \* the client run_analysis holds, or "none"
    suggest_idx,       \* rows the loop of populate_suggestions_tab has consumed
    suggestions,       \* what generate_suggestions returned, one entry per ad
    outcome            \* the way run_analysis ended, or "none"

vars == <<pc, search_terms_df, min_ngram, max_ngram, idx, ngram_performance,
          ngram_lengths, ngram_keys, performance_df, analyzed_data,
          gold_nuggets, mismatches, best_args, mismatch_args, ads_df,
          underperforming, ads_args, called, raised, api_key,
          uploaded_file_content, run_button, ui_pc, gemini_client, suggest_idx,
          suggestions, outcome>>

ngramVars == <<search_terms_df, min_ngram, max_ngram, idx, ngram_performance,
               ngram_lengths, ngram_keys, performance_df, analyzed_data,
               gold_nuggets, mismatches, best_args, mismatch_args>>

adVars == <<ads_df, underperforming, ads_args>>

uiVars == <<api_key, uploaded_file_content, run_button, ui_pc, gemini_client,
            suggest_idx, suggestions, outcome>>

\* ------------------------------------------------------------------ bounds

MaxRecords == 2

MaxAds == 3

\* ------------------------------------------------------- exact fractions

Ratio(n, d) == [num |-> n, den |-> d]

RLess(a, b) == a.num * b.den < b.num * a.den

RLeq(a, b) == a.num * b.den <= b.num * a.den

REq(a, b) == a.num * b.den = b.num * a.den

RIsZero(a) == a.num = 0

\* ------------------------------------------------------------- tokenizing

metrics == <<"Impressions", "Clicks", "Cost", "Conversions", "ConvValue">>

Text(ws) == [null |-> FALSE, words |-> ws]

NullText == [null |-> TRUE, words |-> <<>>]

\* str(text): a missing cell is the float NaN, whose str() is 'nan'.
Str(text) == IF text.null THEN <<"nan">> ELSE text.words

\* Mutant of SplitWord: the punctuation is padded with a space but the
\* padded text is not split again.
SplitWordPadded(w) == IF w = "shoes!" THEN <<"shoes !">> ELSE <<w>>

\* The tokens nltk.word_tokenize makes of one whitespace-separated word:
\* trailing punctuation becomes a token of its own.
SplitWord(w) == IF w = "shoes!" THEN <<"shoes", "!">> ELSE <<w>>

RECURSIVE word_tokenize(_)
word_tokenize(ws) ==
    IF ws = <<>> THEN <<>> ELSE SplitWord(Head(ws)) \o word_tokenize(Tail(ws))

lower(w) ==
    CASE w = "Red" -> "red"
      [] w = "Shoes" -> "shoes"
      [] OTHER -> w

\* " ".join(gram)
RECURSIVE Join(_)
Join(gram) ==
    IF Len(gram) = 1 THEN gram[1] ELSE gram[1] \o " " \o Join(Tail(gram))

\* The token iterator after k calls of next(sub_iterable, None).
Advanced(tokens, k) ==
    IF k >= Len(tokens) THEN <<>> ELSE SubSeq(tokens, k + 1, Len(tokens))

\* Mutant of Zipped: the zip stops one tuple before its shortest iterator ends.
ZippedShort(copies) ==
    LET shortest == CHOOSE l \in { Len(copies[k]) : k \in DOMAIN copies } :
                        \A k \in DOMAIN copies : l <= Len(copies[k])
    IN  [j \in 1..(IF shortest > 0 THEN shortest - 1 ELSE 0) |->
            [k \in DOMAIN copies |-> copies[k][j]]]

\* zip(*iterables): one tuple per position, until the shortest iterator ends.
Zipped(copies) ==
    LET shortest == CHOOSE l \in { Len(copies[k]) : k \in DOMAIN copies } :
                        \A k \in DOMAIN copies : l <= Len(copies[k])
    IN  [j \in 1..shortest |-> [k \in DOMAIN copies |-> copies[k][j]]]

\* nltk.ngrams(tokens, n): n copies of the token iterator (itertools.tee),
\* the k-th advanced by k - 1 tokens, zipped.
ngrams(tokens, n) ==
    Zipped([k \in 1..n |-> Advanced(tokens, k - 1)])

Tokens(text) ==
    LET raw == word_tokenize(Str(text)) IN [i \in 1..Len(raw) |-> lower(raw[i])]

generate_ngrams(text, n) ==
    LET grams == ngrams(Tokens(text), n)
    IN  [i \in 1..Len(grams) |-> Join(grams[i])]

\* ------------------------------------------------------------ accumulating

ZeroSums ==
    [Impressions |-> 0, Clicks |-> 0, Cost |-> 0, Conversions |-> 0, ConvValue |-> 0]

\* Mutant of AddMetrics: the loop stops one metric short (metrics[:-1]).
AddMetricsDropLast(sums, row) ==
    [m \in DOMAIN ZeroSums |-> IF m = "ConvValue" THEN sums[m] ELSE sums[m] + row[m]]

\* for metric in metrics: ngram_performance[ngram][metric] += row[metric]
AddMetrics(sums, row) ==
    [m \in DOMAIN ZeroSums |-> sums[m] + row[m]]

\* The key an n-gram of length n is filed under in ngram_performance and in
\* ngram_lengths: the phrase text.
AggregateKey(ngram, n) == ngram

\* Mutant of AddNgram: `=` for `+=`, the sums of a phrase seen before are
\* replaced by the row's metrics.
AddNgramOverwrite(acc, ngram, n, row) ==
    LET k    == ngram
        seen == k \in DOMAIN acc.perf
    IN  [perf    |-> IF seen
                       THEN [acc.perf EXCEPT ![k] = AddMetrics(ZeroSums, row)]
                       ELSE (k :> AddMetrics(ZeroSums, row)) @@ acc.perf,
         lengths |-> (k :> n) @@ acc.lengths,
         keys    |-> IF seen THEN acc.keys ELSE Append(acc.keys, k)]

\* One pass of the innermost loop body for one n-gram occurrence.
AddNgram(acc, ngram, n, row) ==
    LET k    == AggregateKey(ngram, n)
        seen == k \in DOMAIN acc.perf
    IN  [perf    |-> IF seen
                       THEN [acc.perf EXCEPT ![k] = AddMetrics(@, row)]
                       ELSE (k :> AddMetrics(ZeroSums, row)) @@ acc.perf,
         lengths |-> (k :> n) @@ acc.lengths,
         keys    |-> IF seen THEN acc.keys ELSE Append(acc.keys, k)]

RECURSIVE AddNgrams(_, _, _, _)
AddNgrams(acc, grams, n, row) ==
    IF grams = <<>> THEN acc
    ELSE AddNgrams(AddNgram(acc, Head(grams), n, row), Tail(grams), n, row)

\* for n in range(min_ngram, max_ngram + 1): ... for one row
RECURSIVE AddOrders(_, _, _, _)
AddOrders(acc, row, n, hi) ==
    IF n > hi THEN acc
    ELSE AddOrders(AddNgrams(acc, generate_ngrams(row.SearchTerm, n), n, row),
                   row, n + 1, hi)

EmptyAcc == [perf |-> <<>>, lengths |-> <<>>, keys |-> <<>>]

\* The whole accumulation loop over a frame, rows in order.
RECURSIVE Accumulate(_, _, _, _)
Accumulate(acc, df, lo, hi) ==
    IF df = <<>> THEN acc
    ELSE Accumulate(AddOrders(acc, Head(df), lo, hi), Tail(df), lo, hi)

\* `not ngram_performance`
NothingGenerated(perf) == DOMAIN perf = {}

\* ---------------------------------------------------------------- deriving

\* Series.replace(0, 1)
Replace01(x) == IF x = 0 THEN 1 ELSE x

\* Mutant of DerivedRow: the CPA line keeps the denominator of the line
\* above it (Clicks instead of Conversions).
DerivedRowCopiedDenominator(ngram, sums, n) ==
    [NGram          |-> ngram,
     Impressions    |-> sums.Impressions,
     Clicks         |-> sums.Clicks,
     Cost           |-> sums.Cost,
     Conversions    |-> sums.Conversions,
     ConvValue      |-> sums.ConvValue,
     Length         |-> n,
     CTR            |-> Ratio(sums.Clicks, Replace01(sums.Impressions)),
     ConversionRate |-> Ratio(sums.Conversions, Replace01(sums.Clicks)),
     CPA            |-> Ratio(sums.Cost, Replace01(sums.Clicks)),
     ROAS           |-> Ratio(sums.ConvValue, Replace01(sums.Cost))]

DerivedRow(ngram, sums, n) ==
    [NGram          |-> ngram,
     Impressions    |-> sums.Impressions,
     Clicks         |-> sums.Clicks,
     Cost           |-> sums.Cost,
     Conversions    |-> sums.Conversions,
     ConvValue      |-> sums.ConvValue,
     Length         |-> n,
     CTR            |-> Ratio(sums.Clicks, Replace01(sums.Impressions)),
     ConversionRate |-> Ratio(sums.Conversions, Replace01(sums.Clicks)),
     CPA            |-> Ratio(sums.Cost, Replace01(sums.Conversions)),
     ROAS           |-> Ratio(sums.ConvValue, Replace01(sums.Cost))]

\* pd.DataFrame(): no columns, no rows.
EmptyFrame == [cols |-> {}, rows |-> <<>>]

\* Mutant of IsEmpty: the guard for an empty frame is missing.
IsEmptyNever(df) == FALSE

\* DataFrame.empty
IsEmpty(df) == df.cols = {} \/ df.rows = <<>>

\* DataFrame.from_dict(ngram_performance, orient='index') with the index
\* reset and the length column mapped in: the columns are the metric names
\* of the inner dicts (none when there is no inner dict).
SumColumns(perf) ==
    {"NGram", "Length"} \cup
    (IF DOMAIN perf = {} THEN {}
     ELSE {"Impressions", "Clicks", "Cost", "Conversions", "ConvValue"})

DerivedColumns == {"CTR", "ConversionRate", "CPA", "ROAS"}

\* The frame with its derived columns, or the KeyError of a missing metric
\* column.
BuildFrame(perf, lengths, keys) ==
    IF ~({"Impressions", "Clicks", "Cost", "Conversions", "ConvValue"}
            \subseteq SumColumns(perf))
    THEN [frame |-> EmptyFrame, raised |-> "KeyError"]
    ELSE [frame |-> [cols |-> SumColumns(perf) \cup DerivedColumns,
                     rows |-> [i \in 1..Len(keys) |->
                                 DerivedRow(keys[i], perf[keys[i]], lengths[keys[i]])]],
          raised |-> "none"]

\* ----------------------------------------------------------------- sorting

\* The row numbers S arranged by non-increasing key, rows with equal keys
\* in insertion order (reverse = FALSE) or in reverse insertion order
\* (reverse = TRUE).
RECURSIVE DescOrder(_, _, _)
DescOrder(S, key, reverse) ==
    IF S = {} THEN <<>>
    ELSE LET top == { j \in S : \A m \in S : RLeq(key[m], key[j]) }
             i   == IF reverse THEN CHOOSE j \in top : \A m \in top : m <= j
                               ELSE CHOOSE j \in top : \A m \in top : j <= m
         IN  <<i>> \o DescOrder(S \ {i}, key, reverse)

\* What sort_values(ascending=False) may leave a frame in.  The default sort
\* kind ('quicksort') promises no order among rows with equal keys; of the
\* arrangements it may produce the model keeps the two extremes.
DescOrders(S, key) == { DescOrder(S, key, FALSE), DescOrder(S, key, TRUE) }

Reorder(rows, order) == [i \in 1..Len(order) |-> rows[order[i]]]

IntKey(rows, col) == [i \in 1..Len(rows) |-> Ratio(rows[i][col], 1)]

RatioKey(rows, col) == [i \in 1..Len(rows) |-> rows[i][col]]

SortedByCost(rows) ==
    { Reorder(rows, o) : o \in DescOrders(1..Len(rows), IntKey(rows, "Cost")) }

\* Mutant of IsLength: `>=` for `==`.
IsLengthAtLeast(n, r) == r.Length >= n

\* performance_df['N-Gram Length'] == n
IsLength(n, r) == r.Length = n

\* performance_df[performance_df['N-Gram Length'] == n].copy()
Partition(df, n) ==
    LET Keep(r) == IsLength(n, r) IN [cols |-> df.cols, rows |-> SelectSeq(df.rows, Keep)]

\* analyzed_data after the split loop: one partition per n in lo..hi, each
\* in one of the orders the sort by Cost may produce.
RECURSIVE SplitChoices(_, _, _)
SplitChoices(df, n, hi) ==
    IF n > hi THEN {<<>>}
    ELSE { (n :> [cols |-> df.cols, rows |-> s]) @@ rest :
             s \in SortedByCost(Partition(df, n).rows),
             rest \in SplitChoices(df, n + 1, hi) }

\* -------------------------------------------------------------- classifying

\* ngram_analysis.get('<n>-grams', pd.DataFrame())
Get(analysis, n) == IF n \in DOMAIN analysis THEN analysis[n] ELSE EmptyFrame

\* pd.concat([a, b])
Concat(a, b) == [cols |-> a.cols \cup b.cols, rows |-> a.rows \o b.rows]

Returned(df) == [frame |-> df, raised |-> "none"]

KeyError == [frame |-> EmptyFrame, raised |-> "KeyError"]

\* Mutant of IsGoldNugget: the `CPA > 0` line is missing.
IsGoldNuggetNoGuard(r, min_conversions, max_cpa) ==
    /\ r.Conversions >= min_conversions
    /\ RLeq(r.CPA, Ratio(max_cpa, 1))

IsGoldNugget(r, min_conversions, max_cpa) ==
    /\ r.Conversions >= min_conversions
    /\ RLeq(r.CPA, Ratio(max_cpa, 1))
    /\ ~RIsZero(r.CPA)

\* Mutant of SortedByRoas: the sort is missing, the rows stay as concatenated.
SortedByRoasMissing(rows) == {rows}

SortedByRoas(rows) ==
    { Reorder(rows, o) : o \in DescOrders(1..Len(rows), RatioKey(rows, "ROAS")) }

\* Mutant of LeftAnalysis: the in-place sort is applied to the partitions of
\* the argument themselves and not to a copy of the filtered rows.
LeftAnalysisSortedInPlace(ngram_analysis, col) ==
    [n \in DOMAIN ngram_analysis |->
        IF n \in {2, 3}
        THEN LET rows == ngram_analysis[n].rows
                 key  == IF col = "ROAS" THEN RatioKey(rows, col) ELSE IntKey(rows, col)
             IN  [ngram_analysis[n] EXCEPT
                    !.rows = Reorder(rows, DescOrder(1..Len(rows), key, FALSE))]
        ELSE ngram_analysis[n]]

\* The caller's ngram_analysis as a classifier leaves it: pd.concat builds a
\* new frame, the boolean filter another, and it is the .copy() of that one
\* that sort_values(by=col, inplace=True) reorders.
LeftAnalysis(ngram_analysis, col) == ngram_analysis

\* The frames find_best_ngrams may return, or the exception it raises.
find_best_ngrams(ngram_analysis, min_conversions, max_cpa) ==
    LET relevant == Concat(Get(ngram_analysis, 2), Get(ngram_analysis, 3))
        Keep(r)  == IsGoldNugget(r, min_conversions, max_cpa)
    IN  IF IsEmpty(relevant) THEN {Returned(EmptyFrame)}
        ELSE IF ~({"Conversions", "CPA", "ROAS"} \subseteq relevant.cols) THEN {KeyError}
        ELSE { Returned([cols |-> relevant.cols, rows |-> s]) :
                 s \in SortedByRoas(SelectSeq(relevant.rows, Keep)) }

\* Mutant of IsMismatch: `>` for `>=`.
IsMismatchExclusive(r, min_impressions, max_ctr) ==
    /\ r.Impressions > min_impressions
    /\ RLess(r.CTR, max_ctr)

IsMismatch(r, min_impressions, max_ctr) ==
    /\ r.Impressions >= min_impressions
    /\ RLess(r.CTR, max_ctr)

SortedByImpressions(rows) ==
    { Reorder(rows, o) : o \in DescOrders(1..Len(rows), IntKey(rows, "Impressions")) }

\* The frames find_mismatched_ngrams may return, or the exception it raises.
find_mismatched_ngrams(ngram_analysis, min_impressions, max_ctr) ==
    LET relevant == Concat(Get(ngram_analysis, 2), Get(ngram_analysis, 3))
        Keep(r)  == IsMismatch(r, min_impressions, max_ctr)
    IN  IF IsEmpty(relevant) THEN {Returned(EmptyFrame)}
        ELSE IF ~({"Impressions", "CTR"} \subseteq relevant.cols) THEN {KeyError}
        ELSE { Returned([cols |-> relevant.cols, rows |-> s]) :
                 s \in SortedByImpressions(SelectSeq(relevant.rows, Keep)) }

\* ads_df['CTR'] = ads_df['Clicks'] / ads_df['Impressions'].replace(0, 1)
WithCtr(ad) ==
    [index       |-> ad.index,
     AdGroup     |-> ad.AdGroup,
     Impressions |-> ad.Impressions,
     Clicks      |-> ad.Clicks,
     CTR         |-> Ratio(ad.Clicks, Replace01(ad.Impressions))]

AttachCtr(df) ==
    [cols |-> df.cols \cup {"CTR"},
     rows |-> [i \in 1..Len(df.rows) |-> WithCtr(df.rows[i])]]

\* Mutant of IsUnderperforming: `>=` for `>`.
IsUnderperformingInclusive(ad, min_impressions, max_ctr) ==
    /\ ad.Impressions >= min_impressions
    /\ RLess(ad.CTR, max_ctr)

IsUnderperforming(ad, min_impressions, max_ctr) ==
    /\ ad.Impressions > min_impressions
    /\ RLess(ad.CTR, max_ctr)

\* The frame find_underperforming_ads returns for a frame that has its CTR.
find_underperforming_ads(df, min_impressions, max_ctr) ==
    LET Keep(ad) == IsUnderperforming(ad, min_impressions, max_ctr)
    IN  [cols |-> df.cols, rows |-> SelectSeq(df.rows, Keep)]

\* -------------------------------------------------------------- suggestions

HeadRows == 5

\* df.head(5)
head(df) ==
    [cols |-> df.cols,
     rows |-> SubSeq(df.rows, 1, IF Len(df.rows) < HeadRows THEN Len(df.rows) ELSE HeadRows)]

\* df['N-Gram'].tolist() of a frame that has the column
NGramColumn(df) == [i \in 1..Len(df.rows) |-> df.rows[i].NGram]

\* ', '.join(phrases)
RECURSIVE CommaJoin(_)
CommaJoin(phrases) ==
    IF phrases = <<>> THEN ""
    ELSE IF Len(phrases) = 1 THEN phrases[1]
    ELSE phrases[1] \o ", " \o CommaJoin(Tail(phrases))

\* What client.models.generate_content_stream and the joined chunks may come
\* to: the call raises, the text is blank, the text is no JSON, or it is the
\* JSON object with its ad_variations.
ApiOutcomes == {"raises", "empty", "unparsable", "variations"}

NoMismatchMessage == "No 'Mismatched' n-grams found to generate suggestions from."

ReturnedList(list, api) == [result |-> list, raised |-> "none", api_called |-> api]

RaisedBeforeTry == [result |-> <<>>, raised |-> "KeyError", api_called |-> FALSE]

\* The list the try block returns for each thing the API may do.
Formatted(api, top_best_ngrams, top_mismatched_ngrams) ==
    CASE api = "raises"     -> <<"An error occurred: generate_content_stream">>
      [] api = "empty"      -> <<"An error occurred: Received empty response from API.">>
      [] api = "unparsable" -> <<"An error occurred: JSONDecodeError">>
      [] OTHER ->
           << "BEFORE | Top mismatched n-grams: " \o CommaJoin(top_mismatched_ngrams)
                \o " | Top gold nugget n-grams: " \o CommaJoin(top_best_ngrams),
              "AFTER", "Suggestion Set 1", "Suggestion Set 2" >>

\* generate_suggestions(client, underperforming_ad, best_ngrams_df,
\* mismatched_ngrams_df); the ad is a Series [index, values].  Lines 17-18
\* and the subscripts of the prompt stand before the try block.
generate_suggestions(api, underperforming_ad, best_ngrams_df, mismatched_ngrams_df) ==
    IF "NGram" \notin best_ngrams_df.cols THEN RaisedBeforeTry
    ELSE IF "NGram" \notin mismatched_ngrams_df.cols THEN RaisedBeforeTry
    ELSE LET top_best_ngrams       == NGramColumn(head(best_ngrams_df))
             top_mismatched_ngrams == NGramColumn(head(mismatched_ngrams_df))
         IN  IF top_mismatched_ngrams = <<>>
             THEN ReturnedList(<<NoMismatchMessage>>, FALSE)
             ELSE IF ~({"AdGroup", "Headline1", "CTR"} \subseteq underperforming_ad.index)
             THEN RaisedBeforeTry
             ELSE ReturnedList(Formatted(api, top_best_ngrams, top_mismatched_ngrams), TRUE)

\* analyze_ngrams as one call: the analyses it may return, or its exception.
analyze_ngrams(df, lo, hi) ==
    LET acc == Accumulate(EmptyAcc, df, lo, hi)
        out == BuildFrame(acc.perf, acc.lengths, acc.keys)
    IN  IF NothingGenerated(acc.perf) THEN { [analysis |-> <<>>, raised |-> "none"] }
        ELSE IF out.raised # "none" THEN { [analysis |-> <<>>, raised |-> out.raised] }
        ELSE { [analysis |-> a, raised |-> "none"] : a \in SplitChoices(out.frame, lo, hi) }

\* ------------------------------------------------------------------ inputs

Metrics(i, c, cost, conv, val) ==
    [Impressions |-> i, Clicks |-> c, Cost |-> cost, Conversions |-> conv, ConvValue |-> val]

Query(text, m) ==
    [SearchTerm  |-> text,
     Impressions |-> m.Impressions,
     Clicks      |-> m.Clicks,
     Cost        |-> m.Cost,
     Conversions |-> m.Conversions,
     ConvValue   |-> m.ConvValue]

QuerySamples ==
    { Query(Text(<<"Red", "running", "shoes">>),  Metrics(8000, 40, 100, 10, 800)),
      Query(Text(<<"blue", "running", "shoes">>), Metrics(6000, 20, 90, 2, 60)),
      Query(Text(<<"shoes", "Shoes", "shoes">>),  Metrics(5000, 250, 240, 6, 720)),
      Query(Text(<<"buy", "blue", "shoes!">>),    Metrics(7000, 700, 240, 6, 1200)),
      Query(Text(<<"red", "running">>),           Metrics(5000, 0, 20, 0, 0)),
      Query(Text(<<"blue", "shoes", "!">>),       Metrics(0, 0, 0, 0, 0)),
      Query(NullText,                             Metrics(100, 1, 0, 0, 5)) }

\* (min_ngram, max_ngram): the defaults, the range main.py and app_ui.py
\* pass, and a range that reaches above the 2-gram/3-gram window.
NgramRanges == { <<1, 3>>, <<2, 3>>, <<2, 4>> }

DefaultBest == [min_conversions |-> 5, max_cpa |-> 50]

BestThresholds == { DefaultBest, [min_conversions |-> 0, max_cpa |-> 40] }

DefaultMismatch == [min_impressions |-> 5000, max_ctr |-> Ratio(5, 100)]

MismatchThresholds == { DefaultMismatch, [min_impressions |-> 14000, max_ctr |-> Ratio(1, 100)] }

Ad(group, i, c) == [AdGroup |-> group, Impressions |-> i, Clicks |-> c]

AdSamples ==
    { Ad("Running", 12000, 300), Ad("Trail", 9000, 90), Ad("Kids", 10000, 100),
      Ad("Sale", 20000, 1000), Ad("New", 0, 0) }

AdColumns == {"AdGroup", "Impressions", "Clicks"}

DefaultAds == [min_impressions |-> 10000, max_ctr |-> Ratio(4, 100)]

AdThresholds == { DefaultAds, [min_impressions |-> 9000, max_ctr |-> Ratio(5, 100)] }

\* What an upload slot may hold: None before any upload, then the bytes the
\* handler read: none at all, bytes pd.read_csv cannot read, or a CSV.
NoFile == [kind |-> "none", cols |-> {}, rows |-> <<>>]

EmptyBytes == [kind |-> "empty", cols |-> {}, rows |-> <<>>]

Unreadable == [kind |-> "unreadable", cols |-> {}, rows |-> <<>>]

Csv(cols, rows) == [kind |-> "csv", cols |-> cols, rows |-> rows]

\* `not uploaded_file_content[k]` is false
Truthy(file) == file.kind \notin {"none", "empty"}

Indexed(ads) == [i \in 1..Len(ads) |-> [index |-> i - 1] @@ ads[i]]

UiAdColumns == AdColumns \cup {"Headline1"}

AdsUploads ==
    { EmptyBytes, Unreadable,
      Csv(UiAdColumns, <<>>),
      Csv(UiAdColumns, Indexed(<<Ad("Sale", 20000, 1000)>>)),
      Csv(UiAdColumns, Indexed(<<Ad("Running", 12000, 300)>>)),
      Csv(UiAdColumns, Indexed(<<Ad("Running", 12000, 300), Ad("Sale", 20000, 1000),
                                 Ad("Outlet", 15000, 150)>>)),
      Csv({"AdGroup", "Headline1", "Impressions"}, Indexed(<<Ad("Running", 12000, 300)>>)),
      Csv(AdColumns, Indexed(<<Ad("Running", 12000, 300)>>)) }

SearchTermColumns == {"SearchTerm", "Impressions", "Clicks", "Cost", "Conversions", "ConvValue"}

SearchTermsUploads ==
    { EmptyBytes, Unreadable,
      Csv(SearchTermColumns, <<>>),
      Csv(SearchTermColumns, <<Query(Text(<<"shoes">>), Metrics(0, 0, 0, 0, 0))>>),
      Csv(SearchTermColumns,
          <<Query(Text(<<"buy", "blue", "shoes!">>), Metrics(7000, 700, 240, 6, 1200))>>),
      Csv(SearchTermColumns,
          <<Query(Text(<<"Red", "running", "shoes">>), Metrics(8000, 40, 100, 10, 800)),
            Query(Text(<<"blue", "running", "shoes">>), Metrics(6000, 20, 90, 2, 60))>>) }

\* ----------------------------------------------------------------- actions

InitState ==
    /\ pc = "load"
    /\ search_terms_df = <<>>
    /\ min_ngram = 1
    /\ max_ngram = 3
    /\ idx = 0
    /\ ngram_performance = <<>>
    /\ ngram_lengths = <<>>
    /\ ngram_keys = <<>>
    /\ performance_df = EmptyFrame
    /\ analyzed_data = <<>>
    /\ gold_nuggets = EmptyFrame
    /\ mismatches = EmptyFrame
    /\ best_args = DefaultBest
    /\ mismatch_args = DefaultMismatch
    /\ ads_df = [cols |-> AdColumns, rows |-> <<>>]
    /\ underperforming = EmptyFrame
    /\ ads_args = DefaultAds
    /\ called = {}
    /\ raised = "none"
    /\ uploaded_file_content = [ads |-> NoFile, search_terms |-> NoFile]
    /\ run_button = "enabled"
    /\ ui_pc = "idle"
    /\ gemini_client = "none"
    /\ suggest_idx = 0
    /\ suggestions = <<>>
    /\ outcome = "none"

\* The command-line flow: the key is in the environment.
Init == InitState /\ api_key = TRUE

\* The page is served with or without GEMINI_API_KEY in the environment.
InitUI == InitState /\ api_key \in BOOLEAN

\* One more row of search_terms.csv.
LoadRow ==
    /\ pc = "load"
    /\ Len(search_terms_df) < MaxRecords
    /\ \E q \in QuerySamples : search_terms_df' = Append(search_terms_df, q)
    /\ UNCHANGED <<pc, min_ngram, max_ngram, idx, ngram_performance, ngram_lengths,
                   ngram_keys, performance_df, analyzed_data, gold_nuggets,
                   mismatches, best_args, mismatch_args, adVars, called, raised>>
    /\ UNCHANGED uiVars

\* analyze_ngrams(search_terms_df, min_ngram, max_ngram) is entered.
StartAnalysis ==
    /\ pc = "load"
    /\ \E r \in NgramRanges : min_ngram' = r[1] /\ max_ngram' = r[2]
    /\ pc' = "accumulate"
    /\ UNCHANGED <<search_terms_df, idx, ngram_performance, ngram_lengths,
                   ngram_keys, performance_df, analyzed_data, gold_nuggets,
                   mismatches, best_args, mismatch_args, adVars, called, raised>>
    /\ UNCHANGED uiVars

\* One iteration of `for index, row in search_terms_df.iterrows()`.
AccumulateRow ==
    /\ pc = "accumulate"
    /\ idx < Len(search_terms_df)
    /\ LET acc == AddOrders([perf |-> ngram_performance, lengths |-> ngram_lengths,
                             keys |-> ngram_keys],
                            search_terms_df[idx + 1], min_ngram, max_ngram)
       IN  /\ ngram_performance' = acc.perf
           /\ ngram_lengths' = acc.lengths
           /\ ngram_keys' = acc.keys
    /\ idx' = idx + 1
    /\ UNCHANGED <<pc, search_terms_df, min_ngram, max_ngram, performance_df,
                   analyzed_data, gold_nuggets, mismatches, best_args,
                   mismatch_args, adVars, called, raised>>
    /\ UNCHANGED uiVars

\* `if not ngram_performance: return {}`
ReturnEmpty ==
    /\ pc = "accumulate"
    /\ idx = Len(search_terms_df)
    /\ NothingGenerated(ngram_performance)
    /\ analyzed_data' = <<>>
    /\ pc' = "analyzed"
    /\ UNCHANGED <<search_terms_df, min_ngram, max_ngram, idx, ngram_performance,
                   ngram_lengths, ngram_keys, performance_df, gold_nuggets,
                   mismatches, best_args, mismatch_args, adVars, called, raised>>
    /\ UNCHANGED uiVars

\* The frame is built from the finished sums and the derived columns added.
DeriveMetrics ==
    /\ pc = "accumulate"
    /\ idx = Len(search_terms_df)
    /\ ~NothingGenerated(ngram_performance)
    /\ LET out == BuildFrame(ngram_performance, ngram_lengths, ngram_keys)
       IN  /\ performance_df' = out.frame
           /\ raised' = out.raised
           /\ pc' = IF out.raised = "none" THEN "derived" ELSE "failed"
    /\ UNCHANGED <<search_terms_df, min_ngram, max_ngram, idx, ngram_performance,
                   ngram_lengths, ngram_keys, analyzed_data, gold_nuggets,
                   mismatches, best_args, mismatch_args, adVars, called>>
    /\ UNCHANGED uiVars

\* The split into one frame per length, each sorted by Cost, and the return.
SplitAndSort ==
    /\ pc = "derived"
    /\ analyzed_data' \in SplitChoices(performance_df, min_ngram, max_ngram)
    /\ pc' = "analyzed"
    /\ UNCHANGED <<search_terms_df, min_ngram, max_ngram, idx, ngram_performance,
                   ngram_lengths, ngram_keys, performance_df, gold_nuggets,
                   mismatches, best_args, mismatch_args, adVars, called, raised>>
    /\ UNCHANGED uiVars

\* find_best_ngrams(ngram_analysis, ...): a first call, or a repeated one with
\* the thresholds of the first.
FindBestNgrams ==
    /\ pc = "analyzed"
    /\ \E a \in BestThresholds :
         /\ "find_best_ngrams" \in called => a = best_args
         /\ \E out \in find_best_ngrams(analyzed_data, a.min_conversions, a.max_cpa) :
              /\ best_args' = a
              /\ gold_nuggets' = out.frame
              /\ raised' = out.raised
              /\ pc' = IF out.raised = "none" THEN pc ELSE "failed"
    /\ analyzed_data' = LeftAnalysis(analyzed_data, "ROAS")
    /\ called' = called \cup {"find_best_ngrams"}
    /\ UNCHANGED <<search_terms_df, min_ngram, max_ngram, idx, ngram_performance,
                   ngram_lengths, ngram_keys, performance_df,
                   mismatches, mismatch_args, adVars>>
    /\ UNCHANGED uiVars

\* find_mismatched_ngrams(ngram_analysis, ...): a first call, or a repeated
\* one with the thresholds of the first.
FindMismatchedNgrams ==
    /\ pc = "analyzed"
    /\ \E a \in MismatchThresholds :
         /\ "find_mismatched_ngrams" \in called => a = mismatch_args
         /\ \E out \in find_mismatched_ngrams(analyzed_data, a.min_impressions, a.max_ctr) :
              /\ mismatch_args' = a
              /\ mismatches' = out.frame
              /\ raised' = out.raised
              /\ pc' = IF out.raised = "none" THEN pc ELSE "failed"
    /\ analyzed_data' = LeftAnalysis(analyzed_data, "Impressions")
    /\ called' = called \cup {"find_mismatched_ngrams"}
    /\ UNCHANGED <<search_terms_df, min_ngram, max_ngram, idx, ngram_performance,
                   ngram_lengths, ngram_keys, performance_df,
                   gold_nuggets, best_args, adVars>>
    /\ UNCHANGED uiVars

\* One more row of ads.csv.
LoadAd ==
    /\ pc = "load"
    /\ Len(ads_df.rows) < MaxAds
    /\ \E ad \in AdSamples :
         ads_df' = [ads_df EXCEPT !.rows =
                      Append(@, [index |-> Len(ads_df.rows)] @@ ad)]
    /\ UNCHANGED <<pc, ngramVars, underperforming, ads_args, called, raised>>
    /\ UNCHANGED uiVars

FindUnderperformingAds ==
    /\ pc = "load"
    /\ "find_underperforming_ads" \notin called
    /\ \E a \in AdThresholds :
         /\ ads_args' = a
         /\ ads_df' = AttachCtr(ads_df)
         /\ underperforming' =
              find_underperforming_ads(AttachCtr(ads_df), a.min_impressions, a.max_ctr)
    /\ called' = called \cup {"find_underperforming_ads"}
    /\ pc' = "classified"
    /\ UNCHANGED <<ngramVars, raised>>
    /\ UNCHANGED uiVars

Next ==
    \/ LoadRow
    \/ StartAnalysis
    \/ AccumulateRow
    \/ ReturnEmpty
    \/ DeriveMetrics
    \/ SplitAndSort
    \/ FindBestNgrams
    \/ FindMismatchedNgrams

Spec == Init /\ [][Next]_vars

NextAds ==
    \/ LoadAd
    \/ FindUnderperformingAds

SpecAds == Init /\ [][NextAds]_vars

\* ------------------------------------------------------------ web front end

dataVars == <<pc, ngramVars, adVars, called, raised>>

\* handle_ads_upload
HandleAdsUpload ==
    /\ ui_pc = "idle"
    /\ \E f \in AdsUploads :
         uploaded_file_content' = [uploaded_file_content EXCEPT !.ads = f]
    /\ UNCHANGED <<dataVars, api_key, run_button, ui_pc, gemini_client, suggest_idx,
                   suggestions, outcome>>

\* handle_search_terms_upload
HandleSearchTermsUpload ==
    /\ ui_pc = "idle"
    /\ \E f \in SearchTermsUploads :
         uploaded_file_content' = [uploaded_file_content EXCEPT !.search_terms = f]
    /\ UNCHANGED <<dataVars, api_key, run_button, ui_pc, gemini_client, suggest_idx,
                   suggestions, outcome>>

\* A click on the run button: run_analysis from its validation to the
\* spinner.  A disabled button takes no click.
RunAnalysis ==
    /\ ui_pc = "idle"
    /\ run_button = "enabled"
    /\ IF \/ ~api_key
          \/ ~Truthy(uploaded_file_content.ads)
          \/ ~Truthy(uploaded_file_content.search_terms)
       THEN /\ outcome' = "rejected"
            /\ UNCHANGED <<run_button, ui_pc>>
       ELSE /\ run_button' = "disabled"
            /\ ui_pc' = "initializing"
            /\ outcome' = "none"
    /\ UNCHANGED <<dataVars, api_key, uploaded_file_content, gemini_client,
                   suggest_idx, suggestions>>

\* The try block around genai.Client(api_key=api_key).
InitClient ==
    /\ ui_pc = "initializing"
    /\ \E ok \in BOOLEAN :
         IF ok
         THEN /\ gemini_client' = "client"
              /\ ui_pc' = "processing"
              /\ UNCHANGED <<run_button, outcome>>
         ELSE /\ run_button' = "enabled"
              /\ ui_pc' = "ended"
              /\ outcome' = "client_failure"
              /\ UNCHANGED gemini_client
    /\ UNCHANGED <<dataVars, api_key, uploaded_file_content, suggest_idx, suggestions>>

\* await run.io_bound(process_data_files) and the check of its result:
\* load_data_from_stream gives None for bytes it cannot read; an exception
\* of the analysis or of a classifier leaves run_analysis through the await.
ProcessDataFiles ==
    /\ ui_pc = "processing"
    /\ LET ads == uploaded_file_content.ads
           st  == uploaded_file_content.search_terms
       IN  IF ads.kind = "unreadable" \/ st.kind = "unreadable"
           THEN /\ run_button' = "enabled"
                /\ ui_pc' = "ended"
                /\ outcome' = "load_failure"
                /\ UNCHANGED dataVars
           ELSE \E a \in analyze_ngrams(st.rows, 2, 3) :
                \E b \in find_best_ngrams(a.analysis, DefaultBest.min_conversions,
                                          DefaultBest.max_cpa) :
                \E m \in find_mismatched_ngrams(a.analysis, DefaultMismatch.min_impressions,
                                                DefaultMismatch.max_ctr) :
                  IF \/ a.raised # "none"
                     \/ ~({"Clicks", "Impressions"} \subseteq ads.cols)
                     \/ b.raised # "none"
                     \/ m.raised # "none"
                  THEN /\ raised' = "KeyError"
                       /\ ui_pc' = "ended"
                       /\ outcome' = "processing_exception"
                       /\ UNCHANGED <<pc, ngramVars, adVars, called, run_button>>
                  ELSE /\ search_terms_df' = st.rows
                       /\ min_ngram' = 2
                       /\ max_ngram' = 3
                       /\ analyzed_data' = a.analysis
                       /\ ads_df' = AttachCtr([cols |-> ads.cols, rows |-> ads.rows])
                       /\ underperforming' =
                            find_underperforming_ads(
                                AttachCtr([cols |-> ads.cols, rows |-> ads.rows]),
                                DefaultAds.min_impressions, DefaultAds.max_ctr)
                       /\ gold_nuggets' = b.frame
                       /\ mismatches' = m.frame
                       /\ called' = {"find_underperforming_ads", "find_best_ngrams",
                                     "find_mismatched_ngrams"}
                       /\ ui_pc' = "rendering"
                       /\ UNCHANGED <<pc, idx, ngram_performance, ngram_lengths,
                                      ngram_keys, performance_df, best_args,
                                      mismatch_args, ads_args, raised, run_button,
                                      outcome>>
    /\ UNCHANGED <<api_key, uploaded_file_content, gemini_client, suggest_idx, suggestions>>

\* The tabs are built and populate_analysis_tab fills the first;
\* populate_suggestions_tab is entered.
RenderTabs ==
    /\ ui_pc = "rendering"
    /\ ui_pc' = "suggesting"
    /\ suggest_idx' = 0
    /\ UNCHANGED <<dataVars, api_key, uploaded_file_content, run_button,
                   gemini_client, suggestions, outcome>>

\* One iteration of `for index, ad_row in underperforming_ads.iterrows()`:
\* await run.io_bound(generate_suggestions, ...) with no handler around it.
SuggestForAd ==
    /\ ui_pc = "suggesting"
    /\ suggest_idx < Len(underperforming.rows)
    /\ \E api \in ApiOutcomes :
         LET ad_row == [index  |-> underperforming.cols,
                        values |-> underperforming.rows[suggest_idx + 1]]
             out    == generate_suggestions(api, ad_row, gold_nuggets, mismatches)
         IN  IF out.raised # "none"
             THEN /\ raised' = out.raised
                  /\ ui_pc' = "ended"
                  /\ outcome' = "suggestion_exception"
                  /\ UNCHANGED <<suggest_idx, suggestions>>
             ELSE /\ suggestions' = Append(suggestions,
                                      [result |-> out.result, api_called |-> out.api_called])
                  /\ suggest_idx' = suggest_idx + 1
                  /\ UNCHANGED <<raised, ui_pc, outcome>>
    /\ UNCHANGED <<pc, ngramVars, adVars, called, api_key, uploaded_file_content,
                   run_button, gemini_client>>

\* populate_suggestions_tab returns (at once when there is no underperforming
\* ad) and run_analysis reaches its last line, run_button.enable().
FinishRun ==
    /\ ui_pc = "suggesting"
    /\ suggest_idx = Len(underperforming.rows)
    /\ run_button' = "enabled"
    /\ ui_pc' = "ended"
    /\ outcome' = "success"
    /\ UNCHANGED <<dataVars, api_key, uploaded_file_content, gemini_client,
                   suggest_idx, suggestions>>

NextUI ==
    \/ HandleAdsUpload
    \/ HandleSearchTermsUpload
    \/ RunAnalysis
    \/ InitClient
    \/ ProcessDataFiles
    \/ RenderTabs
    \/ SuggestForAd
    \/ FinishRun

SpecUI == InitUI /\ [][NextUI]_vars

\* ------------------------------------------------------------------ claims

Range(seq) == { seq[i] : i \in 1..Len(seq) }

AnalysisReturned == pc \in {"analyzed", "failed"} /\ idx = Len(search_terms_df)

\* The phrase aggregates analyze_ngrams returned, over all partitions.
ReturnedAggregates == UNION { Range(analyzed_data[n].rows) : n \in DOMAIN analyzed_data }

Orders == min_ngram..max_ngram

\* C1: in every aggregate analyze_ngrams returns, impressions = 0 implies
\* ctr = 0, clicks = 0 implies conversionRate = 0, conversions = 0 implies
\* cpa = 0 and cost = 0 implies roas = 0.
ZeroDenominatorSafety ==
    \A r \in ReturnedAggregates :
        /\ r.Impressions = 0 => RIsZero(r.CTR)
        /\ r.Clicks = 0 => RIsZero(r.ConversionRate)
        /\ r.Conversions = 0 => RIsZero(r.CPA)
        /\ r.Cost = 0 => RIsZero(r.ROAS)

floor1(x) == IF x > 0 THEN x ELSE 1

Permuted(df, p) == [i \in 1..Len(df) |-> df[p[i]]]

\* The sums and the derived rows a run over df leaves, as sets.
SumsOf(df) == Accumulate(EmptyAcc, df, min_ngram, max_ngram).perf

RowsOf(df) ==
    LET acc == Accumulate(EmptyAcc, df, min_ngram, max_ngram)
    IN  Range(BuildFrame(acc.perf, acc.lengths, acc.keys).frame.rows)

\* C2: every returned aggregate carries the final accumulated sums of its
\* phrase and derived fields computed from them alone, each ratio over the
\* denominator floored to 1; and the sums and the derived rows are the same
\* whatever order the records are processed in.
AccumulateThenDerive ==
    (pc = "analyzed" /\ called = {} /\ ~NothingGenerated(ngram_performance)) =>
        /\ \A r \in ReturnedAggregates :
             LET s == ngram_performance[r.NGram]
             IN  /\ r.Impressions = s.Impressions /\ r.Clicks = s.Clicks
                 /\ r.Cost = s.Cost /\ r.Conversions = s.Conversions
                 /\ r.ConvValue = s.ConvValue
                 /\ REq(r.CTR, Ratio(s.Clicks, floor1(s.Impressions)))
                 /\ REq(r.ConversionRate, Ratio(s.Conversions, floor1(s.Clicks)))
                 /\ REq(r.CPA, Ratio(s.Cost, floor1(s.Conversions)))
                 /\ REq(r.ROAS, Ratio(s.ConvValue, floor1(s.Cost)))
        /\ \A p \in Permutations(1..Len(search_terms_df)) :
             /\ SumsOf(Permuted(search_terms_df, p)) = ngram_performance
             /\ RowsOf(Permuted(search_terms_df, p)) = ReturnedAggregates

\* Two different records were merged into one aggregate, and another
\* aggregate has no conversions but a cost, so its cpa is over the floor.
AccumulateThenDeriveWitness ==
    /\ pc = "analyzed"
    /\ Len(search_terms_df) = 2
    /\ search_terms_df[1] # search_terms_df[2]
    /\ \E r \in ReturnedAggregates :
         /\ r.Impressions > search_terms_df[1].Impressions
         /\ r.Impressions > search_terms_df[2].Impressions
    /\ \E r \in ReturnedAggregates :
         /\ r.Conversions = 0 /\ r.Cost > 0
         /\ REq(r.CPA, Ratio(r.Cost, 1))

Occurrences(text, n, p) ==
    LET grams == generate_ngrams(text, n)
    IN  Cardinality({ i \in 1..Len(grams) : grams[i] = p })

RECURSIVE ExpectedSum(_, _, _, _)
ExpectedSum(df, n, p, m) ==
    IF df = <<>> THEN 0
    ELSE Occurrences(Head(df).SearchTerm, n, p) * Head(df)[m]
           + ExpectedSum(Tail(df), n, p, m)

Phrases(df, n) == UNION { Range(generate_ngrams(df[i].SearchTerm, n)) : i \in 1..Len(df) }

\* The places of the returned aggregates: (partition, row number).
Entries ==
    UNION { { <<n, i>> : i \in 1..Len(analyzed_data[n].rows) } : n \in DOMAIN analyzed_data }

EntryRow(e) == analyzed_data[e[1]].rows[e[2]]

\* C3: after analyze_ngrams, each distinct phrase of an order n in range
\* appears in exactly one aggregate, and each of its five sums is the sum,
\* over all records and every occurrence of the phrase among the record's
\* n-grams of order n, of the record's metric; no other aggregate exists.
AdditiveMerge ==
    (pc = "analyzed" /\ called = {}) =>
        /\ \A n \in Orders : \A p \in Phrases(search_terms_df, n) :
             /\ Cardinality({ e \in Entries : EntryRow(e).NGram = p }) = 1
             /\ \A e \in Entries : EntryRow(e).NGram = p =>
                  \A m \in DOMAIN ZeroSums :
                      EntryRow(e)[m] = ExpectedSum(search_terms_df, n, p, m)
        /\ \A e \in Entries :
             \E n \in Orders : EntryRow(e).NGram \in Phrases(search_terms_df, n)

\* 'red running shoes' (8000 impressions, 40 clicks) and 'blue running
\* shoes' (6000, 20) analysed for n in [2, 3]: 'running shoes' has 14000
\* impressions and 60 clicks.
AdditiveMergeWitness ==
    /\ pc = "analyzed"
    /\ min_ngram = 2 /\ max_ngram = 3
    /\ Len(search_terms_df) = 2
    /\ Tokens(search_terms_df[1].SearchTerm) = <<"red", "running", "shoes">>
    /\ search_terms_df[1].Impressions = 8000 /\ search_terms_df[1].Clicks = 40
    /\ Tokens(search_terms_df[2].SearchTerm) = <<"blue", "running", "shoes">>
    /\ search_terms_df[2].Impressions = 6000 /\ search_terms_df[2].Clicks = 20
    /\ \E r \in Range(analyzed_data[2].rows) :
         /\ r.NGram = "running shoes"
         /\ r.Impressions = 14000 /\ r.Clicks = 60
         /\ REq(r.CTR, Ratio(60, 14000))

RECURSIVE Pick(_, _, _)
Pick(df, S, i) ==
    IF i > Len(df) THEN <<>>
    ELSE (IF i \in S THEN <<df[i]>> ELSE <<>>) \o Pick(df, S, i + 1)

\* The sums filed for (phrase, length), zero when there is no such entry.
EntryOf(acc, p, n) ==
    IF p \in DOMAIN acc.perf /\ acc.lengths[p] = n THEN acc.perf[p] ELSE ZeroSums

\* C5: however the records are divided into two disjoint batches A and B,
\* the sums of every (phrase, length) over the merged batch are the sums
\* of the matching entries over A and over B, an absent entry being zero.
BatchAdditivity ==
    (pc = "analyzed" /\ called = {}) =>
        \A S \in SUBSET (1..Len(search_terms_df)) :
            LET all == 1..Len(search_terms_df)
                A   == Accumulate(EmptyAcc, Pick(search_terms_df, S, 1), min_ngram, max_ngram)
                B   == Accumulate(EmptyAcc, Pick(search_terms_df, all \ S, 1), min_ngram, max_ngram)
                AB  == [perf |-> ngram_performance, lengths |-> ngram_lengths]
            IN  \A n \in Orders :
                \A p \in DOMAIN AB.perf \cup DOMAIN A.perf \cup DOMAIN B.perf :
                \A m \in DOMAIN ZeroSums :
                    EntryOf(AB, p, n)[m] = EntryOf(A, p, n)[m] + EntryOf(B, p, n)[m]

\* Two batches of one record each that share a phrase and each have a
\* phrase the other lacks.
BatchAdditivityWitness ==
    /\ pc = "analyzed"
    /\ Len(search_terms_df) = 2
    /\ LET A == SumsOf(<<search_terms_df[1]>>)
           B == SumsOf(<<search_terms_df[2]>>)
       IN  /\ DOMAIN A \cap DOMAIN B # {}
           /\ DOMAIN A \ DOMAIN B # {}
           /\ DOMAIN B \ DOMAIN A # {}

AdsClassified == "find_underperforming_ads" \in called

\* The row numbers of ads_df the rule of C6 selects.
SelectedAds ==
    { i \in 1..Len(ads_df.rows) :
        LET ad == ads_df.rows[i]
        IN  /\ ad.Impressions > ads_args.min_impressions
            /\ RLess(Ratio(ad.Clicks, floor1(ad.Impressions)), ads_args.max_ctr) }

ReturnedAds == { underperforming.rows[j].index + 1 : j \in 1..Len(underperforming.rows) }

\* C6: find_underperforming_ads returns exactly the ads with impressions >
\* minImpressions and ctr < maxCtr, ctr being clicks over the impressions
\* floored to 1, each once and in input order.  With the defaults an ad with
\* 12000 impressions and 300 clicks is selected and one with 9000 impressions
\* is not; an ad with exactly minImpressions impressions is not selected.
UnderperformingSelection ==
    AdsClassified =>
        LET out == underperforming.rows
        IN  /\ ReturnedAds = SelectedAds
            /\ Len(out) = Cardinality(SelectedAds)
            /\ \A j \in 1..Len(out) : out[j] = ads_df.rows[out[j].index + 1]
            /\ \A j, k \in 1..Len(out) : j < k => out[j].index < out[k].index
            /\ \A i \in 1..Len(ads_df.rows) :
                 LET ad == ads_df.rows[i]
                 IN  /\ (ads_args = DefaultAds /\ ad.Impressions = 12000 /\ ad.Clicks = 300)
                            => i \in ReturnedAds
                     /\ (ads_args = DefaultAds /\ ad.Impressions = 9000) => i \notin ReturnedAds
                     /\ ad.Impressions = ads_args.min_impressions => i \notin ReturnedAds

\* Defaults; an ad with 9000 impressions, one with exactly 10000 and one
\* with 12000 impressions and 300 clicks: only the last is returned.
UnderperformingSelectionWitness ==
    /\ AdsClassified
    /\ ads_args = DefaultAds
    /\ \E i, j, k \in 1..Len(ads_df.rows) :
         /\ ads_df.rows[i].Impressions = 9000
         /\ ads_df.rows[j].Impressions = 10000
         /\ ads_df.rows[k].Impressions = 12000 /\ ads_df.rows[k].Clicks = 300
         /\ ReturnedAds = {k}

BestReturned == "find_best_ngrams" \in called /\ raised = "none"

Qualifies(r) ==
    /\ r.Conversions >= best_args.min_conversions
    /\ RLeq(r.CPA, Ratio(best_args.max_cpa, 1))
    /\ RLess(Ratio(0, 1), r.CPA)

\* The aggregates of the 2-gram and 3-gram partitions.
Relevant == { EntryRow(e) : e \in { x \in Entries : x[1] \in {2, 3} } }

\* C7: find_best_ngrams returns exactly the aggregates of the 2-gram and
\* 3-gram partitions with conversions >= minConversions, cpa <= maxCpa and
\* cpa > 0, each once; aggregates of other orders never appear.
GoldNuggetSelection ==
    BestReturned =>
        /\ Range(gold_nuggets.rows) = { r \in Relevant : Qualifies(r) }
        /\ Len(gold_nuggets.rows) = Cardinality(Range(gold_nuggets.rows))
        /\ \A r \in Range(gold_nuggets.rows) : r.Length \in {2, 3}

\* An aggregate of another order meets the thresholds and is left out of a
\* result that is not empty.
GoldNuggetSelectionWitness ==
    /\ BestReturned
    /\ gold_nuggets.rows # <<>>
    /\ \E e \in Entries :
         /\ e[1] \notin {2, 3}
         /\ Qualifies(EntryRow(e))
         /\ EntryRow(e) \notin Range(gold_nuggets.rows)
    /\ \E r \in Relevant : ~Qualifies(r)

\* C8: in the sequence find_best_ngrams returns, every entry has roas >=
\* the roas of the entry after it, whichever partition each came from.
GoldNuggetOrder ==
    BestReturned =>
        \A i \in 1..(Len(gold_nuggets.rows) - 1) :
            RLeq(gold_nuggets.rows[i + 1].ROAS, gold_nuggets.rows[i].ROAS)

\* Two 3-grams with 6 conversions and cpa 40, one with roas 3 and one with
\* roas 5, under the defaults: both are returned, roas 5 before roas 3.
GoldNuggetOrderWitness ==
    /\ BestReturned
    /\ best_args = DefaultBest
    /\ \E i, j \in 1..Len(gold_nuggets.rows) :
         LET a == gold_nuggets.rows[i]
             b == gold_nuggets.rows[j]
         IN  /\ i < j
             /\ a.Length = 3 /\ a.Conversions = 6 /\ REq(a.CPA, Ratio(40, 1))
             /\ REq(a.ROAS, Ratio(5, 1))
             /\ b.Length = 3 /\ b.Conversions = 6 /\ REq(b.CPA, Ratio(40, 1))
             /\ REq(b.ROAS, Ratio(3, 1))

MismatchReturned == "find_mismatched_ngrams" \in called /\ raised = "none"

\* C9: find_mismatched_ngrams returns exactly the aggregates of the 2-gram
\* and 3-gram partitions with impressions >= minImpressions and ctr <
\* maxCtr, each once, ordered by impressions descending.
MismatchSelection ==
    MismatchReturned =>
        /\ Range(mismatches.rows) =
             { r \in Relevant : /\ r.Impressions >= mismatch_args.min_impressions
                                /\ RLess(r.CTR, mismatch_args.max_ctr) }
        /\ Len(mismatches.rows) = Cardinality(Range(mismatches.rows))
        /\ \A i \in 1..(Len(mismatches.rows) - 1) :
             mismatches.rows[i + 1].Impressions <= mismatches.rows[i].Impressions

\* An aggregate with exactly minImpressions impressions is returned, and
\* one with ctr exactly maxCtr and enough impressions is not.
MismatchSelectionWitness ==
    /\ MismatchReturned
    /\ \E r \in Range(mismatches.rows) : r.Impressions = mismatch_args.min_impressions
    /\ \E r \in Relevant :
         /\ r.Impressions >= mismatch_args.min_impressions
         /\ REq(r.CTR, mismatch_args.max_ctr)
         /\ r \notin Range(mismatches.rows)

\* No record yields an n-gram of an order in range.
NoPhrases ==
    \A i \in 1..Len(search_terms_df) : \A n \in Orders :
        generate_ngrams(search_terms_df[i].SearchTerm, n) = <<>>

\* The 2-gram/3-gram union of the analysis is empty.
UnionEmpty == \A n \in {2, 3} \cap DOMAIN analyzed_data : analyzed_data[n].rows = <<>>

\* C10: when there is no record, or no record has enough tokens for an
\* order in range, analyze_ngrams returns the empty collection and raises
\* nothing; find_best_ngrams and find_mismatched_ngrams, given an analysis
\* whose 2-gram/3-gram union is empty, return an empty result and raise
\* nothing.
NoDataPropagation ==
    /\ (AnalysisReturned /\ NoPhrases) =>
          /\ pc = "analyzed" /\ raised = "none"
          /\ DOMAIN analyzed_data = {}
    /\ (AnalysisReturned /\ UnionEmpty) =>
          /\ pc = "analyzed" /\ raised = "none"
          /\ "find_best_ngrams" \in called => IsEmpty(gold_nuggets)
          /\ "find_mismatched_ngrams" \in called => IsEmpty(mismatches)

\* Records were loaded, none long enough for the range; the analysis is
\* empty and both classifiers have returned an empty frame.
NoDataPropagationWitness ==
    /\ pc = "analyzed"
    /\ Len(search_terms_df) >= 1
    /\ NoPhrases
    /\ DOMAIN analyzed_data = {}
    /\ called = {"find_best_ngrams", "find_mismatched_ngrams"}
    /\ gold_nuggets = EmptyFrame /\ mismatches = EmptyFrame
    /\ raised = "none"

\* --- C11, C12: generate_ngrams

HasText(q) == ~q.SearchTerm.null

\* C11: a record whose text is missing is treated as empty text: it yields no
\* n-gram at any order of the analysis, and the sums are those of the
\* records that have a text.
NullTextIsEmptyText ==
    pc = "accumulate" /\ idx = Len(search_terms_df) =>
        /\ \A i \in 1..Len(search_terms_df) :
             ~HasText(search_terms_df[i]) =>
                \A n \in Orders : generate_ngrams(search_terms_df[i].SearchTerm, n) = <<>>
        /\ ngram_performance = SumsOf(SelectSeq(search_terms_df, HasText))

\* The phrase the tokens t[i..i+n-1] stand for: each lower-cased, a single
\* space between neighbours.
RECURSIVE Phrase(_, _, _)
Phrase(t, i, n) ==
    IF n = 1 THEN lower(t[i])
    ELSE Phrase(t, i, n - 1) \o " " \o lower(t[i + n - 1])

\* C12: for a text of L tokens, generate_ngrams returns max(0, L - n + 1)
\* phrases, the i-th being the lower-cased tokens i..i+n-1 joined by single
\* spaces; none when L < n.
NgramGeneration ==
    pc \in {"load", "accumulate"} =>
        \A q \in Range(search_terms_df) :
            LET t == word_tokenize(Str(q.SearchTerm))
                L == Len(t)
            IN  \A n \in 1..(L + 1) :
                    LET g == generate_ngrams(q.SearchTerm, n)
                    IN  /\ Len(g) = (IF L - n + 1 > 0 THEN L - n + 1 ELSE 0)
                        /\ \A i \in 1..Len(g) : g[i] = Phrase(t, i, n)
                        /\ L < n => g = <<>>

\* Two rows have been through the loop: a text of three tokens, one of them
\* capitalised, that gives two 2-grams, and a text shorter than the largest
\* order.
NgramGenerationWitness ==
    /\ pc = "accumulate"
    /\ idx = 2
    /\ Len(search_terms_df) = 2
    /\ search_terms_df[1].SearchTerm = Text(<<"Red", "running", "shoes">>)
    /\ generate_ngrams(search_terms_df[1].SearchTerm, 2) = <<"red running", "running shoes">>
    /\ generate_ngrams(search_terms_df[2].SearchTerm, max_ngram) = <<>>
    /\ HasText(search_terms_df[2])
    /\ "red running" \in DOMAIN ngram_performance

\* --- C13: ties of the sorts

Position(rows, r) == CHOOSE k \in 1..Len(rows) : rows[k] = r

\* Rows of `sorted` with equal keys stand in the order they have in `source`.
KeepsInsertionOrder(sorted, source, col) ==
    \A i, j \in 1..Len(sorted) :
        (i < j /\ sorted[i][col] = sorted[j][col]) =>
            Position(source, sorted[i]) < Position(source, sorted[j])

\* C13: every sort is stable: in each partition (by cost), among the gold
\* nuggets (by roas) and among the mismatches (by impressions), aggregates
\* with equal keys keep their insertion order.
StableSorting ==
    pc = "analyzed" =>
        /\ \A n \in DOMAIN analyzed_data :
             KeepsInsertionOrder(analyzed_data[n].rows, performance_df.rows, "Cost")
        /\ BestReturned =>
             KeepsInsertionOrder(gold_nuggets.rows,
                 Concat(Get(analyzed_data, 2), Get(analyzed_data, 3)).rows, "ROAS")
        /\ MismatchReturned =>
             KeepsInsertionOrder(mismatches.rows,
                 Concat(Get(analyzed_data, 2), Get(analyzed_data, 3)).rows, "Impressions")

\* --- C16: the partitions

NonIncreasingCost(rows) ==
    \A i \in 1..Len(rows) : i < Len(rows) => rows[i].Cost >= rows[i + 1].Cost

\* C16: when at least one aggregate exists the analysis has one partition per
\* n of min_ngram..max_ngram, every aggregate is in exactly one partition,
\* the one of its length, and each partition is in non-increasing cost.
Bucketizing ==
    (pc = "analyzed" /\ called = {} /\ ~NothingGenerated(ngram_performance)) =>
        /\ DOMAIN analyzed_data = Orders
        /\ \A k \in DOMAIN ngram_performance :
             LET at == { e \in Entries : EntryRow(e).NGram = k }
             IN  /\ Cardinality(at) = 1
                 /\ \A e \in at : e[1] = ngram_lengths[k] /\ EntryRow(e).Length = e[1]
        /\ \A e \in Entries : EntryRow(e).NGram \in DOMAIN ngram_performance
        /\ \A n \in Orders : NonIncreasingCost(analyzed_data[n].rows)

\* Range [1,3] over two records: three non-empty partitions, the 2-gram
\* partition holding aggregates of different cost, the costlier first though
\* it was inserted later.
BucketizingWitness ==
    /\ pc = "analyzed"
    /\ called = {}
    /\ Orders = 1..3
    /\ DOMAIN analyzed_data = Orders
    /\ \A n \in Orders : analyzed_data[n].rows # <<>>
    /\ \E i \in 1..Len(analyzed_data[2].rows) :
         /\ i < Len(analyzed_data[2].rows)
         /\ analyzed_data[2].rows[i].Cost > analyzed_data[2].rows[i + 1].Cost
         /\ Position(performance_df.rows, analyzed_data[2].rows[i])
              > Position(performance_df.rows, analyzed_data[2].rows[i + 1])

\* --- C14: no in-place mutation

BothClassifiers == {"find_best_ngrams", "find_mismatched_ngrams"}

SuggestionContainment ==
    /\ outcome # "suggestion_exception"
    /\ \A i \in 1..Len(suggestions) :
         /\ suggestions[i].result # <<>>
         /\ mismatches.rows = <<>> =>
              /\ suggestions[i].result = <<NoMismatchMessage>>
              /\ ~suggestions[i].api_called

\* --- C17: the run button

\* C17: the run button is disabled only in a run whose validation passed (key
\* present, both files uploaded), and no run ends with the button left
\* disabled, whichever way it ends.
RunButtonLifecycle ==
    /\ run_button = "disabled" =>
         /\ api_key
         /\ Truthy(uploaded_file_content.ads)
         /\ Truthy(uploaded_file_content.search_terms)
    /\ ui_pc = "ended" => run_button = "enabled"

====
